---- MODULE Spec2Model ----
(***************************************************************************)
(* Model of the HR query-resolution pipeline of src/hr_query_graph.py:     *)
(* process_hr_query builds an HRGraphState and runs it through the         *)
(* compiled LangGraph graph classify_query -> (handle_escalation |         *)
(* retrieve_documents -> generate_response -> assess_confidence ->         *)
(* (handle_escalation | log_analytics)) -> log_analytics -> END.           *)
(*                                                                         *)
(* Encoding of Python values:                                              *)
(*   - Python None / True / False are the strings PyNone, PyTrue, PyFalse; *)
(*     a key that is absent from a dict is MISSING; every other string is  *)
(*     a Python str.                                                       *)
(*   - a float with three decimals is an integer number of thousandths     *)
(*     (0.2 is 200); a retrieval distance is an integer number of          *)
(*     ten-thousandths (0.7004 is 7004).                                   *)
(*   - session_id is a sequence of one-character strings; a text           *)
(*     (response) is the sequence of its parts, "" being << >>.            *)
(***************************************************************************)
EXTENDS Integers, Sequences, FiniteSets, TLC

VARIABLES
    pc,          \* position of the run: "idle", a node name, "END", "returned", "raised"
    args,        \* arguments of the process_hr_query call
    session_id,  \* local variable session_id of process_hr_query
    state,       \* the HRGraphState threaded through the nodes
    llm_result,  \* result of classify_query: the parsed classifier output
    results,     \* results of retrieve_documents: what the vector store returned
    executed,    \* how many times each node has been entered in this run
    llm_calls,   \* the calls made to the language-model backend, in order
    analytics,   \* the analytics_data records built by log_analytics, in order
    final,       \* the dict returned by process_hr_query
    raised,      \* the exception that left process_hr_query, "" when none
    trace,       \* the nodes entered in this run, in order
    index,       \* the chunks of the vector store that match the query, nearest first
    abandoned,   \* number of nodes entered when the caller abandoned the request, -1 when it has not
    runs,        \* concurrent calls: position, session_id and result of each caller
    states,      \* concurrent calls: the HRGraphState dicts, by slot
    ingestion_tool, \* the module global _ingestion_tool of document_ingestion.py
    constructed, \* how many DocumentIngestionTool objects have been constructed
    request,     \* server: the HTTP request being handled
    vector_store, \* ingestion: the chunks held by the Chroma collection
    ingestion    \* ingestion: the call of ingest_document under way

vars == <<pc, args, session_id, state, llm_result, results, executed, llm_calls,
          analytics, final, raised, trace, index, abandoned, runs, states,
          ingestion_tool, constructed, request, vector_store, ingestion>>

\* ─── Bounds ───────────────────────────────────────────────────────────────
MaxHits == 3
MaxScored == 4

\* ─── Python values ────────────────────────────────────────────────────────
PyNone  == "<None>"
PyTrue  == "<True>"
PyFalse == "<False>"
MISSING == "<missing>"

\* bool(v) of Python, for the values of this model
Truthy(v) == v \notin {PyNone, PyFalse, MISSING, ""}

\* dict.get(key, default)
Get(d, key, default) == IF d[key] = MISSING THEN default ELSE d[key]

\* v or ""
OrEmpty(v) == IF Truthy(v) THEN v ELSE ""

Min(a, b) == IF a < b THEN a ELSE b
Max(a, b) == IF a > b THEN a ELSE b

\* seq[:n]
Take(seq, n) == SubSeq(seq, 1, Min(n, Len(seq)))

\* round(num / den, 0) for num >= 0, den > 0: nearest integer, ties to even
RoundDiv(num, den) ==
    LET q == num \div den
        r == num % den
    IN  IF 2 * r < den THEN q
        ELSE IF 2 * r > den THEN q + 1
        ELSE IF q % 2 = 0 THEN q ELSE q + 1

\* ─── Enumerations ─────────────────────────────────────────────────────────
QueryCategory ==
    {"leave_policy", "reimbursement", "insurance", "onboarding", "payroll",
     "performance", "code_of_conduct", "remote_work", "benefits", "it_policy",
     "general_policy", "unknown"}

COMPLEX        == "complex"
POLICY_GAP     == "policy_gap"
SENSITIVE      == "sensitive"
LOW_CONFIDENCE == "low_confidence"
EscalationType == {COMPLEX, POLICY_GAP, SENSITIVE, LOW_CONFIDENCE}

Nodes == {"classify_query", "retrieve_documents", "generate_response",
          "assess_confidence", "handle_escalation", "log_analytics"}

\* ─── Inputs ───────────────────────────────────────────────────────────────
\* session_id argument: omitted (None), empty, or a caller's token
NoSessionId == <<PyNone>>
CallerToken == <<"s", "e", "s", "s", "-", "a", "b", "c", "1", "2">>
CallerSessionIds == {NoSessionId, << >>, CallerToken}

\* str(uuid.uuid4()): 8-4-4-4-12 lower-case hexadecimal digits
FreshTokens ==
    {<<"3","f","2","a","9","c","1","e","-","7","b","4","d","-","4","a","6","0","-",
       "9","e","1","c","-","5","d","0","8","b","2","f","6","a","c","7","1">>}

Queries == {"How many casual leaves am I entitled to per year?", ""}
StartTimes == {5000}       \* time.time() at the call, in milliseconds
Delays == {12}             \* milliseconds from the call to log_analytics

\* The classifier backend reply.  content is the text of the reply as a
\* sequence of tokens: FENCE_JSON is the opening fence of a json code block,
\* FENCE is a bare code fence, WORDS is prose, and JSON_TEXT stands for the
\* serialised value json of the reply.
FENCE_JSON == "[fence]json"
FENCE      == "[fence]"
WORDS      == "words"
JSON_TEXT  == "JSON"
Contents ==
    {<<JSON_TEXT>>,
     <<FENCE_JSON, JSON_TEXT, FENCE>>,
     <<FENCE, JSON_TEXT, FENCE>>,
     <<WORDS, FENCE_JSON, JSON_TEXT, FENCE, WORDS>>,
     <<WORDS, JSON_TEXT>>,
     <<FENCE_JSON, WORDS, FENCE>>}

CategoryValues   == {"leave_policy", "salary", MISSING}
IntentValues     == {"Wants the yearly casual leave entitlement"}
EscalateValues   == {PyTrue, PyFalse, "yes", MISSING}
EscTypeValues    == {SENSITIVE, COMPLEX, LOW_CONFIDENCE, "urgent", PyNone}
ReasonFor(type)  == IF type = PyNone THEN PyNone ELSE "Needs human judgment"

JsonObjects ==
    {[kind |-> "object", category |-> c, intent |-> i, escalate |-> e,
      escalation_reason |-> ReasonFor(t), escalation_type |-> t] :
        c \in CategoryValues, i \in IntentValues, e \in EscalateValues,
        t \in EscTypeValues}

\* a JSON value that is not an object (a list, a string, a number)
JsonArray ==
    [kind |-> "array", category |-> MISSING, intent |-> MISSING, escalate |-> MISSING,
     escalation_reason |-> MISSING, escalation_type |-> MISSING]

JsonValues == JsonObjects \cup {JsonArray}

\* (Document, distance) pairs returned by the vector store
SourceValues   == {"leave_policy.pdf", MISSING}
DistanceValues == {0, 7004, 10000}
Hits ==
    {[page_content |-> "Employees get 12 casual leaves per year.", source |-> s,
      category |-> "leave_policy", distance |-> d] :
        s \in SourceValues, d \in DistanceValues}

RECURSIVE SeqsUpTo(_, _)
SeqsUpTo(S, n) ==
    IF n = 0 THEN {<< >>}
    ELSE LET shorter == SeqsUpTo(S, n - 1)
         IN  shorter \cup {Append(q, x) : q \in shorter, x \in S}

K == 6
ResultLists == SeqsUpTo(Hits, Min(MaxHits, K))

\* response.content of the generation backend
GeneratedTexts == {<<"You are entitled to 12 casual leaves per year.">>, << >>}

ClassifierReplies == [content : Contents, json : JsonValues]

Range(seq) == {seq[i] : i \in 1..Len(seq)}

\* ─── classify_query ───────────────────────────────────────────────────────
\* str.split(sep)[n] over tokens: the segments between the separator tokens
RECURSIVE Split(_, _)
Split(text, seps) ==
    IF \A i \in 1..Len(text) : text[i] \notin seps THEN <<text>>
    ELSE LET i == CHOOSE k \in 1..Len(text) :
                      /\ text[k] \in seps
                      /\ \A j \in 1..(k - 1) : text[j] \notin seps
         IN  <<SubSeq(text, 1, i - 1)>> \o Split(SubSeq(text, i + 1, Len(text)), seps)

\* the text handed to json.loads: what is inside the first code fence, or
\* the whole reply when there is no fence
ExtractJson(content) ==
    IF FENCE_JSON \in Range(content)
    THEN Split(Split(content, {FENCE_JSON})[2], {FENCE})[1]
    ELSE IF FENCE \in Range(content)
    THEN Split(Split(content, {FENCE})[2], {FENCE})[1]
    ELSE content

\* the except branch: the safe default
FallbackResult ==
    [kind |-> "object", category |-> "unknown", intent |-> "Employee query",
     escalate |-> PyFalse, escalation_reason |-> PyNone, escalation_type |-> PyNone]

\* json.loads(content.strip()) inside try/except: the value when the text is
\* exactly one JSON value, the default when json.loads raises
ParseReply(reply) ==
    IF ExtractJson(reply.content) = <<JSON_TEXT>> THEN reply.json ELSE FallbackResult
\* the node that forgets to store the classifier's category
classify_query_NoCategory(st, result) ==
    [st EXCEPT !.query_intent      = Get(result, "intent", ""),
               !.should_escalate   = Get(result, "escalate", PyFalse),
               !.escalation_reason = OrEmpty(Get(result, "escalation_reason", PyNone)),
               !.escalation_type   = OrEmpty(Get(result, "escalation_type", PyNone))]

\* the five assignments from result (a dict)
classify_query(st, result) ==
    [st EXCEPT !.query_category    = Get(result, "category", "unknown"),
               !.query_intent      = Get(result, "intent", ""),
               !.should_escalate   = Get(result, "escalate", PyFalse),
               !.escalation_reason = OrEmpty(Get(result, "escalation_reason", PyNone)),
               !.escalation_type   = OrEmpty(Get(result, "escalation_type", PyNone))]

\* ─── retrieve_documents ───────────────────────────────────────────────────
\* similarity = 1 - score, in ten-thousandths
Similarity(distance) == 10000 - distance
\* variant: an entry of similarity 0.0 is kept
Survives_NonNegative(similarity) == similarity >= 0

\* the filter `similarity > 0.0`
Survives(similarity) == similarity > 0

\* round(similarity, 3): ten-thousandths to thousandths
Round3(similarity) == RoundDiv(similarity, 10)

\* doc.metadata.get("source", "Unknown")
SourceOf(hit) == Get(hit, "source", "Unknown")

\* variant: the membership test is dropped
AddSource_NoCheck(sources, source) == Append(sources, source)

\* `if source not in sources: sources.append(source)`
AddSource(sources, source) ==
    IF source \in Range(sources) THEN sources ELSE Append(sources, source)

\* the for loop over results
RECURSIVE RetrieveLoop(_, _, _)
RetrieveLoop(res, retrieved_docs, sources) ==
    IF res = << >> THEN [retrieved_docs |-> retrieved_docs, sources |-> sources]
    ELSE LET hit == Head(res)
             similarity == Similarity(hit.distance)
         IN  IF Survives(similarity)
             THEN RetrieveLoop(Tail(res),
                      Append(retrieved_docs,
                             [content  |-> hit.page_content,
                              source   |-> SourceOf(hit),
                              category |-> Get(hit, "category", ""),
                              score    |-> Round3(similarity)]),
                      AddSource(sources, SourceOf(hit)))
             ELSE RetrieveLoop(Tail(res), retrieved_docs, sources)

ContextDocs == 4
\* variant: every surviving document goes into the context
ContextParts_All(retrieved_docs) ==
    IF retrieved_docs = << >> THEN << >>
    ELSE [i \in 1..Len(retrieved_docs) |->
            [index   |-> i,
             source  |-> retrieved_docs[i].source,
             score   |-> retrieved_docs[i].score,
             content |-> retrieved_docs[i].content]]

\* context_parts: one formatted block per document of retrieved_docs[:4];
\* the context string is their join, empty exactly when there is no part
ContextParts(retrieved_docs) ==
    IF retrieved_docs = << >> THEN << >>
    ELSE [i \in 1..Min(ContextDocs, Len(retrieved_docs)) |->
            [index   |-> i,
             source  |-> retrieved_docs[i].source,
             score   |-> retrieved_docs[i].score,
             content |-> retrieved_docs[i].content]]

retrieve_documents(st, res) ==
    LET loop == RetrieveLoop(res, << >>, << >>)
    IN  [st EXCEPT !.retrieved_docs = loop.retrieved_docs,
                   !.context        = ContextParts(loop.retrieved_docs),
                   !.sources        = loop.sources]

\* ─── generate_response ────────────────────────────────────────────────────
\* which system prompt is sent: grounded in the context, or the degraded one
PromptFor(st) == IF st.context # << >> THEN "generate_grounded" ELSE "generate_degraded"

generate_response(st, content) ==
    [st EXCEPT !.response = content,
               !.messages = st.messages \o
                   <<[type |-> "human", content |-> <<st.query>>],
                     [type |-> "ai", content |-> content]>>]

\* ─── assess_confidence ────────────────────────────────────────────────────
\* float(os.getenv("ESCALATION_THRESHOLD", "0.6")), in thousandths; no node reads it
ESCALATION_THRESHOLD == 600
NoDocsConfidence == 200
ConfidenceFloor  == 750
ScoredDocs       == 3

RECURSIVE SumScores(_)
SumScores(docs) == IF docs = << >> THEN 0 ELSE Head(docs).score + SumScores(Tail(docs))

\* variant: the sum of the scores is not divided by their number
Confidence_NoMean(retrieved_docs) ==
    Max(ConfidenceFloor, SumScores(Take(retrieved_docs, ScoredDocs)))

\* variant: the mean is taken over every document, not the first three
Confidence_AllDocs(retrieved_docs) ==
    RoundDiv(Max(ConfidenceFloor * Len(retrieved_docs), SumScores(retrieved_docs)),
             Len(retrieved_docs))

\* round(max(0.75, sum(scores of docs[:3]) / min(3, len(docs))), 3), in thousandths
Confidence(retrieved_docs) ==
    LET n   == Min(ScoredDocs, Len(retrieved_docs))
        sum == SumScores(Take(retrieved_docs, ScoredDocs))
    IN  RoundDiv(Max(ConfidenceFloor * n, sum), n)

\* variant: the no-evidence branch overwrites an escalation decided upstream
assess_confidence_Overwrite(st) ==
    IF st.retrieved_docs = << >>
    THEN [st EXCEPT !.confidence_score  = NoDocsConfidence,
                    !.should_escalate   = PyTrue,
                    !.escalation_type   = POLICY_GAP,
                    !.escalation_reason = "No relevant policy documents found"]
    ELSE [st EXCEPT !.confidence_score = Confidence(st.retrieved_docs),
                    !.should_escalate  = PyFalse]

\* variant: with evidence, escalation is decided by comparing the mean score
\* of the first three documents with ESCALATION_THRESHOLD
assess_confidence_Threshold(st) ==
    IF st.retrieved_docs = << >>
    THEN IF ~Truthy(st.should_escalate)
         THEN [st EXCEPT !.confidence_score  = NoDocsConfidence,
                         !.should_escalate   = PyTrue,
                         !.escalation_type   = POLICY_GAP,
                         !.escalation_reason = "No relevant policy documents found"]
         ELSE [st EXCEPT !.confidence_score = NoDocsConfidence]
    ELSE [st EXCEPT !.confidence_score = Confidence(st.retrieved_docs),
                    !.should_escalate  =
                        IF SumScores(Take(st.retrieved_docs, ScoredDocs))
                               < ESCALATION_THRESHOLD * Min(ScoredDocs, Len(st.retrieved_docs))
                        THEN PyTrue ELSE PyFalse]
\* variant: without evidence the assessor writes its own reason even when an
\* escalation was already decided
assess_confidence_ReasonAlways(st) ==
    IF st.retrieved_docs = << >>
    THEN IF ~Truthy(st.should_escalate)
         THEN [st EXCEPT !.confidence_score  = NoDocsConfidence,
                         !.should_escalate   = PyTrue,
                         !.escalation_type   = POLICY_GAP,
                         !.escalation_reason = "No relevant policy documents found"]
         ELSE [st EXCEPT !.confidence_score  = NoDocsConfidence,
                         !.escalation_reason = "No relevant policy documents found"]
    ELSE [st EXCEPT !.confidence_score = Confidence(st.retrieved_docs),
                    !.should_escalate  = PyFalse]
\* variant: with evidence the assessor also clears the escalation type
assess_confidence_ClearsType(st) ==
    IF st.retrieved_docs = << >>
    THEN IF ~Truthy(st.should_escalate)
         THEN [st EXCEPT !.confidence_score  = NoDocsConfidence,
                         !.should_escalate   = PyTrue,
                         !.escalation_type   = POLICY_GAP,
                         !.escalation_reason = "No relevant policy documents found"]
         ELSE [st EXCEPT !.confidence_score = NoDocsConfidence]
    ELSE [st EXCEPT !.confidence_score = Confidence(st.retrieved_docs),
                    !.should_escalate  = PyFalse,
                    !.escalation_type  = ""]

assess_confidence(st) ==
    IF st.retrieved_docs = << >>
    THEN IF ~Truthy(st.should_escalate)
         THEN [st EXCEPT !.confidence_score  = NoDocsConfidence,
                         !.should_escalate   = PyTrue,
                         !.escalation_type   = POLICY_GAP,
                         !.escalation_reason = "No relevant policy documents found"]
         ELSE [st EXCEPT !.confidence_score = NoDocsConfidence]
    ELSE [st EXCEPT !.confidence_score = Confidence(st.retrieved_docs),
                    !.should_escalate  = PyFalse]

\* ─── handle_escalation ────────────────────────────────────────────────────
SensitiveNotice     == "**This query involves a sensitive HR matter** and requires direct HR team involvement."
ComplexNotice       == "**This query involves a complex process** that may require personalized HR guidance."
PolicyGapNotice     == "**No specific policy was found** in our current documentation for this query."
LowConfidenceNotice == "**This response may need verification** by an HR specialist."
GenericNotice       == "This query has been flagged for HR review."
\* variant: the table has no entry for low_confidence
EscalationNotice_NoLowConfidence(escalation_type) ==
    CASE escalation_type = SENSITIVE      -> SensitiveNotice
      [] escalation_type = COMPLEX        -> ComplexNotice
      [] escalation_type = POLICY_GAP     -> PolicyGapNotice
      [] OTHER                            -> GenericNotice

\* escalation_messages.get(escalation_type, <generic notice>)
EscalationNotice(escalation_type) ==
    CASE escalation_type = SENSITIVE      -> SensitiveNotice
      [] escalation_type = COMPLEX        -> ComplexNotice
      [] escalation_type = POLICY_GAP     -> PolicyGapNotice
      [] escalation_type = LOW_CONFIDENCE -> LowConfidenceNotice
      [] OTHER                            -> GenericNotice

LowerCase == <<"a","b","c","d","e","f","g","h","i","j","k","l","m",
               "n","o","p","q","r","s","t","u","v","w","x","y","z">>
UpperCase == <<"A","B","C","D","E","F","G","H","I","J","K","L","M",
               "N","O","P","Q","R","S","T","U","V","W","X","Y","Z">>

\* str.upper()
Upper(text) ==
    [i \in 1..Len(text) |->
        IF \E k \in 1..Len(LowerCase) : LowerCase[k] = text[i]
        THEN UpperCase[CHOOSE k \in 1..Len(LowerCase) : LowerCase[k] = text[i]]
        ELSE text[i]]

RefLen == 8

\* variant: the reference is not upper-cased
ReferenceId_NoUpper(sid) == Take(sid, RefLen)

\* state['session_id'][:8].upper()
ReferenceId(sid) == IF sid = << >> THEN << >> ELSE Upper(Take(sid, RefLen))

FooterRule     == "---"
FooterPromise  == "**Your query has been escalated to the HR team.** An HR representative will reach out within 1-2 business days."
FooterContact  == "For urgent matters, please contact HR directly at: hr@company.com"
FooterRefOpen  == "*Reference ID: "
FooterRefClose == "*"
Acknowledgment == "Thank you for your query. "

\* the f-string escalation_footer
EscalationFooter(escalation_notice, sid) ==
    <<FooterRule, escalation_notice, FooterPromise, FooterContact, FooterRefOpen>>
        \o ReferenceId(sid) \o <<FooterRefClose>>

\* variant: the earlier response is replaced, not extended
handle_escalation_Replace(st) ==
    [st EXCEPT !.response =
        <<Acknowledgment>> \o
            EscalationFooter(EscalationNotice(st.escalation_type), st.session_id)]
\* variant: the escalation handler lowers the confidence of what it escalates
handle_escalation_SetsConfidence(st) ==
    LET escalation_footer ==
            EscalationFooter(EscalationNotice(st.escalation_type), st.session_id)
    IN  IF st.response # << >>
        THEN [st EXCEPT !.response = st.response \o escalation_footer,
                        !.confidence_score = NoDocsConfidence]
        ELSE [st EXCEPT !.response = <<Acknowledgment>> \o escalation_footer,
                        !.confidence_score = NoDocsConfidence]
\* variant: with no earlier response the footer is stored alone
handle_escalation_FooterOnly(st) ==
    LET escalation_footer ==
            EscalationFooter(EscalationNotice(st.escalation_type), st.session_id)
    IN  [st EXCEPT !.response = st.response \o escalation_footer]

handle_escalation(st) ==
    LET escalation_footer ==
            EscalationFooter(EscalationNotice(st.escalation_type), st.session_id)
    IN  IF st.response # << >>
        THEN [st EXCEPT !.response = st.response \o escalation_footer]
        ELSE [st EXCEPT !.response = <<Acknowledgment>> \o escalation_footer]
\* variant: a run that took longer than 20 ms is flagged for escalation
log_analytics_SlowRunsEscalate(st, end_time) ==
    [st EXCEPT !.response_time_ms = end_time - st.start_time,
               !.should_escalate  = IF end_time - st.start_time > 20
                                    THEN PyTrue ELSE st.should_escalate]

\* ─── log_analytics ────────────────────────────────────────────────────────
\* int((end_time - start_time) * 1000), times in milliseconds
log_analytics(st, end_time) ==
    [st EXCEPT !.response_time_ms = end_time - st.start_time]
\* variant: the record is built without the sources of the run
AnalyticsData_NoSources(st, now) ==
    [session_id       |-> st.session_id,
     employee_id      |-> st.employee_id,
     department       |-> st.department,
     role             |-> st.role,
     query_category   |-> st.query_category,
     query_intent     |-> st.query_intent,
     confidence_score |-> st.confidence_score,
     escalated        |-> st.should_escalate,
     escalation_type  |-> st.escalation_type,
     response_time_ms |-> st.response_time_ms,
     sources_used     |-> << >>,
     timestamp        |-> now]

\* analytics_data, built from the state after response_time_ms is set
AnalyticsData(st, now) ==
    [session_id       |-> st.session_id,
     employee_id      |-> st.employee_id,
     department       |-> st.department,
     role             |-> st.role,
     query_category   |-> st.query_category,
     query_intent     |-> st.query_intent,
     confidence_score |-> st.confidence_score,
     escalated        |-> st.should_escalate,
     escalation_type  |-> st.escalation_type,
     response_time_ms |-> st.response_time_ms,
     sources_used     |-> st.sources,
     timestamp        |-> now]

\* ─── Routing and graph ────────────────────────────────────────────────────
\* variant: the escalate flag is not consulted
route_after_classification_TypeOnly(st) ==
    IF st.escalation_type = SENSITIVE THEN "handle_escalation" ELSE "retrieve_documents"

\* variant: the short-circuit is missing
route_after_classification_Never(st) == "retrieve_documents"

route_after_classification(st) ==
    IF Truthy(st.should_escalate) /\ st.escalation_type = SENSITIVE
    THEN "handle_escalation"
    ELSE "retrieve_documents"
\* variant: every assessed run is sent to the escalation handler
route_after_confidence_Always(st) == "handle_escalation"
\* variant: the assessor never sends a run to the escalation handler
route_after_confidence_Never(st) == "log_analytics"

route_after_confidence(st) ==
    IF Truthy(st.should_escalate) THEN "handle_escalation" ELSE "log_analytics"

EntryPoint == "classify_query"

\* graph.add_edge(...)
AfterRetrieveDocuments == "generate_response"
AfterGenerateResponse  == "assess_confidence"
\* variant: the escalation edge leads back to the assessor
AfterHandleEscalation_Back == "assess_confidence"
\* variant: the escalation handler is routed through again
AfterHandleEscalation_Again == "handle_escalation"
AfterHandleEscalation  == "log_analytics"
AfterLogAnalytics      == "END"

\* ─── process_hr_query ─────────────────────────────────────────────────────
\* variant: a token is generated even when the caller supplied one
NewSessionId_AlwaysFresh(supplied, fresh) == fresh

\* `if not session_id: session_id = str(uuid.uuid4())`
NewSessionId(supplied, fresh) ==
    IF supplied \in {NoSessionId, << >>} THEN fresh ELSE supplied

InitialState(a, sid, start_time) ==
    [session_id        |-> sid,
     employee_id       |-> a.employee_id,
     department        |-> a.department,
     role              |-> a.role,
     query             |-> a.query,
     messages          |-> << >>,
     query_category    |-> "",
     query_intent      |-> "",
     retrieved_docs    |-> << >>,
     context           |-> << >>,
     response          |-> << >>,
     confidence_score  |-> 0,
     sources           |-> << >>,
     should_escalate   |-> PyFalse,
     escalation_type   |-> "",
     escalation_reason |-> "",
     start_time        |-> start_time,
     response_time_ms  |-> 0]

\* the dict returned by process_hr_query
Result(sid, query, final_state) ==
    [session_id       |-> sid,
     query            |-> query,
     response         |-> final_state.response,
     category         |-> final_state.query_category,
     confidence       |-> final_state.confidence_score,
     escalated        |-> final_state.should_escalate,
     escalation_type  |-> final_state.escalation_type,
     sources          |-> final_state.sources,
     response_time_ms |-> final_state.response_time_ms]

\* ─── The run ──────────────────────────────────────────────────────────────
NoArgs   == "<no call>"
NoState  == "<no state>"
NoResult == "<no result>"

\* llm_result before classify_query has parsed a reply
NotParsed ==
    [kind |-> "none", category |-> MISSING, intent |-> MISSING, escalate |-> MISSING,
     escalation_reason |-> MISSING, escalation_type |-> MISSING]

\* the role argument: a role of the closed set, and a string outside it
RoleValues == {"employee", "contractor"}

\* the calls of the model: every session_id with the well-formed query and
\* role, and the empty query and the unknown role with session_id omitted
\* the caller has not abandoned the request
NotAbandoned == 0 - 1

\* _ingestion_tool: Optional[DocumentIngestionTool] = None
NoTool == 0

\* no HTTP request has been received
NoRequest == [phase |-> "none"]

\* ingest_document has not been called
NoIngestion == [phase |-> "none", calls |-> 0]

\* the server has received nothing and the collection is empty
NoServerActivity ==
    /\ request = NoRequest
    /\ vector_store = << >>
    /\ ingestion = NoIngestion

\* no concurrent call is under way
NoConcurrentCalls ==
    /\ runs = << >>
    /\ states = << >>
    /\ ingestion_tool = NoTool
    /\ constructed = 0

CallArgs ==
    {a \in [query : Queries, employee_id : {"EMP001"}, department : {"Engineering"},
            role : RoleValues, session_id : CallerSessionIds] :
        \/ a.query # "" /\ a.role = "employee"
        \/ a.query = "" /\ a.role = "employee" /\ a.session_id = NoSessionId
        \/ a.query # "" /\ a.role # "employee" /\ a.session_id = NoSessionId}

Init ==
    /\ pc = "idle"
    /\ args = NoArgs
    /\ session_id = NoSessionId
    /\ state = NoState
    /\ llm_result = NotParsed
    /\ results = << >>
    /\ executed = [n \in Nodes |-> 0]
    /\ llm_calls = << >>
    /\ analytics = << >>
    /\ final = NoResult
    /\ raised = ""
    /\ trace = << >>
    /\ index = << >>
    /\ abandoned = NotAbandoned
    /\ NoConcurrentCalls
    /\ NoServerActivity

Enter(node) ==
    /\ executed' = [executed EXCEPT ![node] = @ + 1]
    /\ trace' = Append(trace, node)
    /\ UNCHANGED <<index, abandoned, runs, states, ingestion_tool, constructed>>
    /\ UNCHANGED <<request, vector_store, ingestion>>

\* process_hr_query up to hr_graph.invoke(initial_state)
ProcessHrQuery ==
    /\ pc = "idle"
    /\ \E a \in CallArgs, fresh \in FreshTokens, start_time \in StartTimes :
         LET sid == NewSessionId(a.session_id, fresh)
         IN  /\ args' = a
             /\ session_id' = sid
             /\ state' = InitialState(a, sid, start_time)
    /\ pc' = EntryPoint
    /\ UNCHANGED <<llm_result, results, executed, llm_calls, analytics, final, raised>>
    /\ UNCHANGED <<trace, index, abandoned, runs, states, ingestion_tool, constructed>>
    /\ UNCHANGED <<request, vector_store, ingestion>>

\* node classify_query: the backend answers; a parsed value that is not a
\* dict has no .get, and the AttributeError leaves the node
ClassifyQuery ==
    /\ pc = "classify_query"
    /\ Enter("classify_query")
    /\ llm_calls' = Append(llm_calls, "classify")
    /\ \E reply \in ClassifierReplies :
         LET result == ParseReply(reply)
         IN  /\ llm_result' = result
             /\ IF result.kind = "object"
                THEN /\ state' = classify_query(state, result)
                     /\ pc' = route_after_classification(state')
                     /\ raised' = raised
                ELSE /\ state' = state
                     /\ pc' = "raised"
                     /\ raised' = "AttributeError"
    /\ UNCHANGED <<args, session_id, results, analytics, final>>

\* node classify_query: llm.invoke raises (it is outside the try block)
ClassifyQueryBackendError ==
    /\ pc = "classify_query"
    /\ Enter("classify_query")
    /\ llm_calls' = Append(llm_calls, "classify")
    /\ pc' = "raised"
    /\ raised' = "ClassifierBackendError"
    /\ UNCHANGED <<args, session_id, state, llm_result, results, analytics, final>>

\* node retrieve_documents
RetrieveDocuments ==
    /\ pc = "retrieve_documents"
    /\ Enter("retrieve_documents")
    /\ \E res \in ResultLists :
         /\ results' = res
         /\ state' = retrieve_documents(state, res)
    /\ pc' = AfterRetrieveDocuments
    /\ UNCHANGED <<args, session_id, llm_result, llm_calls, analytics, final, raised>>

\* node retrieve_documents: get_ingestion_tool or the search raises
RetrieveDocumentsError ==
    /\ pc = "retrieve_documents"
    /\ Enter("retrieve_documents")
    /\ pc' = "raised"
    /\ raised' = "RetrievalError"
    /\ UNCHANGED <<args, session_id, state, llm_result, results, llm_calls, analytics, final>>

\* node generate_response
GenerateResponse ==
    /\ pc = "generate_response"
    /\ Enter("generate_response")
    /\ llm_calls' = Append(llm_calls, PromptFor(state))
    /\ \E content \in GeneratedTexts : state' = generate_response(state, content)
    /\ pc' = AfterGenerateResponse
    /\ UNCHANGED <<args, session_id, llm_result, results, analytics, final, raised>>

\* node generate_response: llm.invoke raises
GenerateResponseBackendError ==
    /\ pc = "generate_response"
    /\ Enter("generate_response")
    /\ llm_calls' = Append(llm_calls, PromptFor(state))
    /\ pc' = "raised"
    /\ raised' = "GenerationBackendError"
    /\ UNCHANGED <<args, session_id, state, llm_result, results, analytics, final>>

\* node assess_confidence
AssessConfidence ==
    /\ pc = "assess_confidence"
    /\ Enter("assess_confidence")
    /\ state' = assess_confidence(state)
    /\ pc' = route_after_confidence(state')
    /\ UNCHANGED <<args, session_id, llm_result, results, llm_calls, analytics, final, raised>>

\* node handle_escalation
HandleEscalation ==
    /\ pc = "handle_escalation"
    /\ Enter("handle_escalation")
    /\ state' = handle_escalation(state)
    /\ pc' = AfterHandleEscalation
    /\ UNCHANGED <<args, session_id, llm_result, results, llm_calls, analytics, final, raised>>

\* node log_analytics
LogAnalytics ==
    /\ pc = "log_analytics"
    /\ Enter("log_analytics")
    /\ \E delay \in Delays :
         LET end_time == state.start_time + delay
         IN  /\ state' = log_analytics(state, end_time)
             /\ analytics' = Append(analytics, AnalyticsData(state', end_time))
    /\ pc' = AfterLogAnalytics
    /\ UNCHANGED <<args, session_id, llm_result, results, llm_calls, final, raised>>

\* process_hr_query after hr_graph.invoke returned: build the result dict
Return ==
    /\ pc = "END"
    /\ final' = Result(session_id, args.query, state)
    /\ pc' = "returned"
    /\ UNCHANGED <<args, session_id, state, llm_result, results, executed, llm_calls,
                   analytics, raised>>
    /\ UNCHANGED <<trace, index, abandoned, runs, states, ingestion_tool, constructed>>
    /\ UNCHANGED <<request, vector_store, ingestion>>

Next ==
    \/ ProcessHrQuery
    \/ ClassifyQuery
    \/ ClassifyQueryBackendError
    \/ RetrieveDocuments
    \/ RetrieveDocumentsError
    \/ GenerateResponse
    \/ GenerateResponseBackendError
    \/ AssessConfidence
    \/ HandleEscalation
    \/ LogAnalytics
    \/ Return

Spec == Init /\ [][Next]_vars

\* every step of a run is a synchronous call: a run that can step does step
FairSpec == Spec /\ WF_vars(Next)

\* ─── Claims ───────────────────────────────────────────────────────────────
\* bool(v) written out over the values of the model, for the claims
IsSet(v) == v # PyFalse /\ v # PyNone /\ v # MISSING /\ v # ""

\* the classifier output (as parsed) asks for escalation with type sensitive
FlaggedSensitive ==
    /\ llm_result.kind = "object"
    /\ IsSet(llm_result.escalate)
    /\ llm_result.escalation_type = SENSITIVE

\* classify_query took a step and did not raise
ClassifyCompletes == pc = "classify_query" /\ pc' # "raised"

\* C1 (as stated): after classify_query completes, the next stage is
\* handle_escalation when the classified escalation_type is sensitive and
\* retrieve_documents otherwise, for every classifier output.
C1_TypeAloneRoutes ==
    [][ClassifyCompletes =>
         pc' = IF llm_result'.escalation_type = SENSITIVE
               THEN "handle_escalation" ELSE "retrieve_documents"]_vars

\* C1 (amended): after classify_query completes, the next stage is
\* handle_escalation exactly when the classifier output has a truthy escalate
\* and escalation_type sensitive; it is retrieve_documents otherwise.
C1_SensitiveRouting ==
    [][ClassifyCompletes =>
         pc' = IF IsSet(llm_result'.escalate) /\ llm_result'.escalation_type = SENSITIVE
               THEN "handle_escalation" ELSE "retrieve_documents"]_vars

\* a run in which the type is sensitive, escalate is not set, and the run
\* went on to retrieval
C1_Witness ==
    /\ pc = "retrieve_documents"
    /\ llm_result.escalation_type = SENSITIVE
    /\ llm_result.escalate = PyFalse
    /\ executed["classify_query"] = 1

C3_EachStageAtMostOnce == \A n \in Nodes : executed[n] <= 1

\* the run that goes through all six stages
C3_Witness == pc = "returned" /\ \A n \in Nodes : executed[n] = 1

\* C4 (as stated): every run executes log_analytics exactly once, emitting
\* exactly one analytics record, before it ends: a run that has ended has
\* done so.
C4_EveryRunLogsOnce ==
    pc \in {"returned", "raised"} =>
        executed["log_analytics"] = 1 /\ Len(analytics) = 1

\* no entry of the retrieval results has a positive similarity
NoneSurvive == \A i \in 1..Len(results) : results[i].distance >= 10000

\* the run went through retrieval and returned
ReturnedAfterRetrieval == pc = "returned" /\ executed["retrieve_documents"] = 1

\* C5 (as stated): when no retrieval result survives, the result has
\* confidence 0.2, escalated true and escalation_type policy_gap, for every
\* classifier output that did not short-circuit as sensitive.
C5_NoEvidenceIsPolicyGap ==
    (ReturnedAfterRetrieval /\ NoneSurvive) =>
        /\ final.confidence = 200
        /\ final.escalated = PyTrue
        /\ final.escalation_type = POLICY_GAP

\* C5 (amended): when no retrieval result survives, the result has
\* confidence 0.2 and escalated set; escalated is true and escalation_type
\* is policy_gap when the classifier's escalate was not set, and both keep
\* the classifier's values when it was.
C5_NoEvidenceEscalates ==
    (ReturnedAfterRetrieval /\ NoneSurvive) =>
        /\ final.confidence = 200
        /\ IsSet(final.escalated)
        /\ IF IsSet(llm_result.escalate)
           THEN /\ final.escalated = llm_result.escalate
                /\ final.escalation_type =
                     (IF llm_result.escalation_type = PyNone
                      THEN "" ELSE llm_result.escalation_type)
           ELSE /\ final.escalated = PyTrue
                /\ final.escalation_type = POLICY_GAP

\* results came back, none survived, and the classifier had escalated as complex
C5_Witness ==
    /\ ReturnedAfterRetrieval
    /\ NoneSurvive
    /\ Len(results) > 0
    /\ llm_result.escalate = PyTrue
    /\ final.escalation_type = COMPLEX
    /\ final.confidence = 200

\* C6 (as stated): at completion, should_escalate true implies that
\* escalation_type is one of the four defined kinds.
C6_EscalatedHasDefinedType ==
    (pc = "returned" /\ final.escalated = PyTrue) =>
        final.escalation_type \in EscalationType

\* C7 (as stated): the category stored by classify_query and returned by
\* process_hr_query is one of the twelve category values, and the stored
\* escalate flag is a boolean.
C7_CategoryClosedEscalateBoolean ==
    /\ (pc \in {"retrieve_documents", "handle_escalation"}
            /\ executed["handle_escalation"] = 0) =>
          /\ state.query_category \in QueryCategory
          /\ state.should_escalate \in {PyTrue, PyFalse}
    /\ pc = "returned" => final.category \in QueryCategory

\* C8: the confidence of every returned result lies in [0, 1].
C8_ConfidenceInUnitInterval ==
    pc = "returned" => (0 <= final.confidence /\ final.confidence <= 1000)

\* a returned result at the upper end of the interval
C8_Witness ==
    /\ pc = "returned"
    /\ final.confidence = 1000
    /\ Len(results) >= 2

\* the entries of results with a positive similarity, and their source names
Survivors == SelectSeq(results, LAMBDA h : h.distance < 10000)
SurvivorSources ==
    [i \in 1..Len(Survivors) |->
        IF Survivors[i].source = MISSING THEN "Unknown" ELSE Survivors[i].source]

FirstIndex(seq, x) == CHOOSE i \in 1..Len(seq) : seq[i] = x /\ \A j \in 1..(i - 1) : seq[j] # x

\* C9: once retrieve_documents has run, sources has no duplicate, holds
\* exactly the source identifiers of the surviving entries, in the order of
\* their first appearance, and the returned result carries that list.
C9_SourcesDistinctFirstSeen ==
    (executed["retrieve_documents"] = 1 /\ pc \notin {"retrieve_documents", "raised"}) =>
        LET src == state.sources
        IN  /\ \A i, j \in 1..Len(src) : i # j => src[i] # src[j]
            /\ {src[i] : i \in 1..Len(src)} =
                   {SurvivorSources[i] : i \in 1..Len(Survivors)}
            /\ \A i, j \in 1..Len(src) :
                   i < j => FirstIndex(SurvivorSources, src[i])
                                < FirstIndex(SurvivorSources, src[j])
            /\ pc = "returned" => final.sources = src

\* three entries survive, the third repeating the source of the first
C9_Witness ==
    /\ pc = "returned"
    /\ Len(Survivors) = 3
    /\ Survivors[1].source = Survivors[3].source
    /\ Survivors[1].source # Survivors[2].source
    /\ Len(final.sources) = 2

\* the caller passed a session_id (None and the empty string count as omitted)
Supplied(a) == a.session_id # NoSessionId /\ a.session_id # << >>

\* C10: session_id is fixed when the state is created (the caller's value
\* when supplied, a fresh token when omitted), no later step changes it, and
\* the result carries it: the caller's own value when one was supplied.
C10_SessionIdFixedAndEchoed ==
    [][/\ pc = "idle" =>
            /\ Supplied(args') => state'.session_id = args'.session_id
            /\ ~Supplied(args') => state'.session_id \in FreshTokens
       /\ pc # "idle" =>
            /\ state'.session_id = state.session_id
            /\ pc' = "returned" =>
                 /\ final'.session_id = state.session_id
                 /\ Supplied(args) => final'.session_id = args.session_id]_vars

\* an escalated run of a caller that supplied its session_id
C10_Witness ==
    /\ pc = "returned"
    /\ args.session_id = CallerToken
    /\ final.session_id = CallerToken
    /\ executed["handle_escalation"] = 1

\* handle_escalation has run and the run went on
Escalated == executed["handle_escalation"] = 1 /\ pc \in {"log_analytics", "END", "returned"}

\* the first eight characters of the two session ids of the model, upper-cased
ExpectedReference(sid) ==
    IF sid = CallerToken THEN <<"S", "E", "S", "S", "-", "A", "B", "C">>
    ELSE <<"3", "F", "2", "A", "9", "C", "1", "E">>

\* the tokens of text between the reference opener and the closing token
ReferenceIn(text) ==
    LET open == CHOOSE i \in 1..Len(text) : text[i] = FooterRefOpen
    IN  SubSeq(text, open + 1, Len(text) - 1)

\* C11: whenever handle_escalation has run, the reference code written in
\* the footer is the first 8 characters of the session_id of the run,
\* upper-cased.
C11_ReferenceIsUpperCasedPrefix ==
    Escalated =>
        /\ \E i \in 1..Len(state.response) : state.response[i] = FooterRefOpen
        /\ state.response[Len(state.response)] = FooterRefClose
        /\ ReferenceIn(state.response) = ExpectedReference(state.session_id)
        /\ Len(ReferenceIn(state.response)) = 8

\* an escalated run of a caller whose session_id has lower-case letters
\* and more than eight characters
C11_Witness ==
    /\ pc = "returned"
    /\ executed["handle_escalation"] = 1
    /\ state.session_id = CallerToken
    /\ ReferenceIn(final.response) = <<"S", "E", "S", "S", "-", "A", "B", "C">>

\* classification did not produce a dict from the reply: the backend call
\* failed, the reply was not JSON (the default was substituted), or the JSON
\* was not an object
ClassificationFailed ==
    /\ executed["classify_query"] = 1
    /\ llm_result.kind # "object" \/ llm_result = FallbackResult

\* C12 (as stated): a classification failure of any kind never raises out of
\* classify_query: the stage ends with category unknown, the placeholder
\* intent, escalate false and empty escalation type and reason, and the run
\* continues to retrieve_documents.
C12_ClassificationFailureAbsorbed ==
    ClassificationFailed =>
        /\ raised \notin {"ClassifierBackendError", "AttributeError"}
        /\ state.query_category = "unknown"
        /\ state.query_intent = "Employee query"
        /\ state.should_escalate = PyFalse
        /\ state.escalation_type = ""
        /\ state.escalation_reason = ""
        /\ executed["retrieve_documents"] = 0 => pc = "retrieve_documents"

\* C13 (as stated): a failure of the Retrieval Service call does not abort
\* the run: no run ends with the retrieval error as its outcome.
C13_RetrievalFailureAbsorbed ==
    executed["retrieve_documents"] = 1 => raised # "RetrievalError"

\* C14 (as stated): a failure of the Generation Backend call does not abort
\* the run: generate_response leaves a non-empty fallback response and the
\* run goes on to assess_confidence.
C14_GenerationFailureAbsorbed ==
    executed["generate_response"] = 1 =>
        /\ raised # "GenerationBackendError"
        /\ pc # "raised"

\* the closed role set of the data model
ClosedRoles == {"employee", "manager", "hr_admin", "hr_manager", "executive"}

\* the request has a non-empty query and a role of the closed set
WellFormed(a) == a.query # "" /\ a.role \in ClosedRoles

\* C15 (as stated): a request with an empty query or a role outside the
\* closed role set is rejected before the pipeline starts: no stage is
\* entered for it.
C15_InvalidInputRejected ==
    (pc # "idle" /\ ~WellFormed(args)) => \A n \in Nodes : executed[n] = 0

\* C16 (as stated): for every well-formed request, whatever the backends do,
\* the call does not end in an exception, and the result it returns has all
\* nine fields.
C16_AlwaysACompleteResult ==
    (pc # "idle" /\ WellFormed(args)) =>
        /\ raised = ""
        /\ pc = "returned" =>
             DOMAIN final = {"session_id", "query", "response", "category", "confidence",
                             "escalated", "escalation_type", "sources", "response_time_ms"}

\* ─── Scoring runs ─────────────────────────────────────────────────────────
\* Runs taken up right after retrieve_documents, over retrieval results with
\* a wider choice of distances (similarities 0.9, 0.85, 0.8, 0.2996, 0.0)
\* and two classifier outputs: the default, and an escalation as complex.
ScoredDistances == {1000, 1500, 2000, 7004, 10000}
ScoredHits ==
    {[page_content |-> "Employees get 12 casual leaves per year.",
      source |-> "leave_policy.pdf", category |-> "leave_policy", distance |-> d] :
        d \in ScoredDistances}
ScoredResultLists == SeqsUpTo(ScoredHits, Min(MaxScored, K))

ScoringResults ==
    {FallbackResult,
     [kind |-> "object", category |-> "leave_policy",
      intent |-> "Wants the yearly casual leave entitlement", escalate |-> PyTrue,
      escalation_reason |-> "Needs human judgment", escalation_type |-> COMPLEX]}

ScoringArgs ==
    [query |-> "How many casual leaves am I entitled to per year?",
     employee_id |-> "EMP001", department |-> "Engineering", role |-> "employee",
     session_id |-> CallerToken]

\* the run after process_hr_query, classify_query and retrieve_documents
ScoringInit ==
    \E result \in ScoringResults, res \in ScoredResultLists, start_time \in StartTimes :
        /\ pc = AfterRetrieveDocuments
        /\ args = ScoringArgs
        /\ session_id = NewSessionId(ScoringArgs.session_id, << >>)
        /\ state = retrieve_documents(
                       classify_query(InitialState(ScoringArgs, session_id, start_time),
                                      result),
                       res)
        /\ llm_result = result
        /\ results = res
        /\ executed = [n \in Nodes |->
                          IF n \in {"classify_query", "retrieve_documents"} THEN 1 ELSE 0]
        /\ llm_calls = <<"classify">>
        /\ analytics = << >>
        /\ final = NoResult
        /\ raised = ""
        /\ trace = <<"classify_query", "retrieve_documents">>
        /\ index = res
        /\ abandoned = NotAbandoned
        /\ NoConcurrentCalls
        /\ NoServerActivity

ScoringNext ==
    \/ GenerateResponse
    \/ GenerateResponseBackendError
    \/ AssessConfidence
    \/ HandleEscalation
    \/ LogAnalytics
    \/ Return

ScoringSpec == ScoringInit /\ [][ScoringNext]_vars

\* assess_confidence has run
Assessed == executed["assess_confidence"] = 1

\* the score of the i-th evidence entry, 0 when there is none
ScoreAt(i) == IF i <= Len(state.retrieved_docs) THEN state.retrieved_docs[i].score ELSE 0
TopSum   == ScoreAt(1) + ScoreAt(2) + ScoreAt(3)
TopCount == IF Len(state.retrieved_docs) < 3 THEN Len(state.retrieved_docs) ELSE 3

\* C17: with at least one evidence entry, assess_confidence sets confidence
\* to max(0.75, mean similarity of the first min(3, n) entries) rounded to 3
\* decimals: the value is the thousandth nearest to that maximum, it is
\* exactly 0.75 when the mean is below 0.75, and the scores 0.9, 0.8, 0.85
\* give 0.85.
C17_ConfidenceIsFlooredTopThreeMean ==
    (Assessed /\ Len(state.retrieved_docs) >= 1) =>
        LET c      == state.confidence_score
            target == IF TopSum > 750 * TopCount THEN TopSum ELSE 750 * TopCount
            diff   == c * TopCount - target
        IN  /\ 2 * diff <= TopCount
            /\ 2 * diff >= 0 - TopCount
            /\ TopSum < 750 * TopCount => c = 750
            /\ (ScoreAt(1) = 900 /\ ScoreAt(2) = 800 /\ ScoreAt(3) = 850) => c = 850

\* the scenario of the specification, followed by a fourth, weak entry
C17_Witness ==
    /\ pc = "returned"
    /\ Len(state.retrieved_docs) = 4
    /\ ScoreAt(1) = 900 /\ ScoreAt(2) = 800 /\ ScoreAt(3) = 850
    /\ state.retrieved_docs[4].score = 300
    /\ final.confidence = 850

\* the mean similarity of the surviving entries is below the configured threshold
WeakEvidence ==
    /\ Len(Survivors) >= 1
    /\ \A i \in 1..Len(Survivors) : 10000 - Survivors[i].distance < 10 * ESCALATION_THRESHOLD

\* C18: in every run that went through assess_confidence with at least one
\* surviving evidence entry, should_escalate is false afterwards and
\* handle_escalation is not entered, whatever the classifier signalled and
\* however low the similarities are.
C18_EvidenceOverridesEscalation ==
    (Assessed /\ Len(Survivors) >= 1) =>
        /\ state.should_escalate = PyFalse
        /\ executed["handle_escalation"] = 0
        /\ pc \in {"log_analytics", "END", "returned"}
        /\ pc = "returned" => final.escalated = PyFalse

\* the classifier escalated as complex, the only evidence is weak, and the
\* run returned without escalation
C18_Witness ==
    /\ pc = "returned"
    /\ llm_result.escalate = PyTrue
    /\ llm_result.escalation_type = COMPLEX
    /\ WeakEvidence
    /\ final.escalated = PyFalse
    /\ executed["handle_escalation"] = 0

\* the text the generation backend returned, as recorded in messages
Generated == state.messages[2].content

\* the run escalated after assess_confidence
EscalatedAfterAssessment == Assessed /\ Escalated

\* C19: when the run escalates after assess_confidence, the response that
\* generate_response produced is an unchanged prefix of the final response
\* and the escalation footer comes after it (directly after it when the
\* generated text is not empty).
C19_GeneratedResponseKeptAsPrefix ==
    EscalatedAfterAssessment =>
        LET r == state.response
        IN  /\ Len(r) > Len(Generated)
            /\ SubSeq(r, 1, Len(Generated)) = Generated
            /\ \E i \in (Len(Generated) + 1)..Len(r) :
                   /\ r[i] = FooterRule
                   /\ r[i + 1] = EscalationNotice(state.escalation_type)
                   /\ r[i + 2] = FooterPromise
                   /\ r[i + 3] = FooterContact
                   /\ Generated # << >> => i = Len(Generated) + 1
            /\ pc = "returned" => final.response = r

\* a returned run that generated a text and then escalated
C19_Witness ==
    /\ pc = "returned"
    /\ EscalatedAfterAssessment
    /\ Generated # << >>
    /\ final.response[1] = Generated[1]
    /\ final.response[2] = FooterRule

\* the number of escalation footers in a text
RECURSIVE FooterCount(_)
FooterCount(text) ==
    IF text = << >> THEN 0
    ELSE (IF Head(text) = FooterPromise THEN 1 ELSE 0) + FooterCount(Tail(text))

\* C20 (as stated): applying handle_escalation twice to the same base
\* response with the same escalation type yields a response that contains
\* the footer once.
C20_HandlerIdempotent ==
    pc = "handle_escalation" =>
        FooterCount(handle_escalation(handle_escalation(state)).response) = 1

\* C20 (amended): the graph applies handle_escalation at most once per run,
\* so the response of a run holds as many footers as handle_escalation was
\* entered, which is at most one.
C20_SingleApplication ==
    pc # "idle" =>
        /\ executed["handle_escalation"] <= 1
        /\ FooterCount(state.response) = executed["handle_escalation"]

\* a returned run that escalated: one footer
C20_Witness ==
    /\ pc = "returned"
    /\ executed["handle_escalation"] = 1
    /\ FooterCount(final.response) = 1

\* ---------------------------------------------------------------------------
\* The result of a sensitive run
\* ---------------------------------------------------------------------------

\* the classifier's reply is a JSON object with escalate = true and type sensitive
SensitiveAndEscalating == FlaggedSensitive /\ llm_result.escalate = PyTrue

\* the category the classifier gave, "unknown" when its object has no category key
ClassifierCategory ==
    IF llm_result.category = MISSING THEN "unknown" ELSE llm_result.category

\* C21: every completed run whose classifier output is sensitive with
\* escalate = true returns escalated = true, escalation_type = sensitive, an empty
\* source list and the category the classifier gave.
C21_SensitiveResult ==
    (pc = "returned" /\ SensitiveAndEscalating) =>
        /\ final.escalated = PyTrue
        /\ final.escalation_type = SENSITIVE
        /\ final.sources = << >>
        /\ final.category = ClassifierCategory

\* a sensitive run has returned its result, and the classifier had named a category
C21_Witness ==
    /\ pc = "returned"
    /\ SensitiveAndEscalating
    /\ llm_result.category = "salary"
    /\ final.category = "salary"
    /\ final.escalated = PyTrue

\* ---------------------------------------------------------------------------
\* Non-empty response
\* ---------------------------------------------------------------------------

\* C22: the response returned by process_hr_query is non-empty on every path,
\* including the non-escalated path when the generation backend returns empty
\* content.
C22_ResponseNeverEmpty == pc = "returned" => final.response # << >>

\* ---------------------------------------------------------------------------
\* Stage succession
\* ---------------------------------------------------------------------------

ShortCircuitPath == <<"classify_query", "handle_escalation", "log_analytics">>
AnsweredPath     == <<"classify_query", "retrieve_documents", "generate_response",
                      "assess_confidence", "log_analytics">>
EscalatedPath    == <<"classify_query", "retrieve_documents", "generate_response",
                      "assess_confidence", "handle_escalation", "log_analytics">>
Paths == {ShortCircuitPath, AnsweredPath, EscalatedPath}

IsPrefix(s, t) == Len(s) <= Len(t) /\ \A i \in 1..Len(s) : s[i] = t[i]

\* C25: the stages a run has entered are always the beginning of one of the three
\* successions, a run that reaches END has entered exactly one of them, and the
\* stage after assess_confidence is handle_escalation if and only if
\* should_escalate is true when assess_confidence is done.
C25_OneOfThreeSuccessions ==
    /\ \E p \in Paths : IsPrefix(trace, p)
    /\ pc \in {"END", "returned"} => trace \in Paths
    /\ \A i \in 1..Len(trace) :
           (trace[i] = "assess_confidence" /\ i < Len(trace)) =>
               /\ trace[i + 1] \in {"handle_escalation", "log_analytics"}
               /\ trace[i + 1] = "handle_escalation" <=> Truthy(state.should_escalate)

\* a run escalated by assess_confidence has gone through all six stages
C25_Witness ==
    /\ pc = "returned"
    /\ trace = EscalatedPath
    /\ state.should_escalate = PyTrue
    /\ state.escalation_type = POLICY_GAP

\* ---------------------------------------------------------------------------
\* First writer wins
\* ---------------------------------------------------------------------------

\* the step taken is node assess_confidence, run without evidence
AssessesWithoutEvidence ==
    /\ pc = "assess_confidence"
    /\ pc' # pc
    /\ state.retrieved_docs = << >>

\* C26: without evidence assess_confidence sets the confidence to 0.2; when
\* should_escalate was already true it leaves should_escalate, escalation_type and
\* escalation_reason as the classifier set them, and only when should_escalate
\* was false does it write true, policy_gap and its own reason.
C26_FirstWriterWins ==
    [][AssessesWithoutEvidence =>
          /\ state'.confidence_score = NoDocsConfidence
          /\ IF Truthy(state.should_escalate)
             THEN /\ state'.should_escalate   = state.should_escalate
                  /\ state'.escalation_type   = state.escalation_type
                  /\ state'.escalation_reason = state.escalation_reason
                  /\ state.should_escalate   = llm_result.escalate
                  /\ state.escalation_type   = OrEmpty(llm_result.escalation_type)
                  /\ state.escalation_reason = OrEmpty(llm_result.escalation_reason)
             ELSE /\ state'.should_escalate   = PyTrue
                  /\ state'.escalation_type   = POLICY_GAP
                  /\ state'.escalation_reason = "No relevant policy documents found"]_vars

\* assess_confidence has run without evidence on an escalation the classifier had
\* decided, and the classifier's type and reason are still there
C26_Witness ==
    /\ pc = "handle_escalation"
    /\ trace = Take(EscalatedPath, 4)
    /\ state.retrieved_docs = << >>
    /\ llm_result.escalate = PyTrue
    /\ state.confidence_score = NoDocsConfidence
    /\ state.escalation_type = COMPLEX
    /\ state.escalation_reason = ReasonFor(COMPLEX)

\* ---------------------------------------------------------------------------
\* The single writer of confidence_score
\* ---------------------------------------------------------------------------

\* C27: confidence_score starts at 0.0 and is changed by no node other than
\* assess_confidence, so the result of a sensitive short-circuit run has
\* confidence 0.0.
C27_OnlyAssessorWritesConfidence ==
    [][/\ pc = "idle" /\ pc' # pc => state'.confidence_score = 0
       /\ (pc \in Nodes /\ pc # "assess_confidence") =>
              state'.confidence_score = state.confidence_score
       /\ (pc = "END" /\ pc' = "returned" /\ trace = ShortCircuitPath) =>
              final'.confidence = 0]_vars

\* a sensitive run has gone through handle_escalation and log_analytics and has
\* returned confidence 0.0
C27_Witness ==
    /\ pc = "returned"
    /\ FlaggedSensitive
    /\ trace = ShortCircuitPath
    /\ final.confidence = 0

\* ---------------------------------------------------------------------------
\* Escalation notices
\* ---------------------------------------------------------------------------

\* the token of text that follows the rule opening the footer
NoticeIn(text) ==
    LET rule == CHOOSE i \in 1..Len(text) : text[i] = FooterRule
    IN  text[rule + 1]

Notices == {SensitiveNotice, ComplexNotice, PolicyGapNotice, LowConfidenceNotice}

\* C30: the footer written by handle_escalation carries the notice of the
\* escalation type of the run: each of sensitive, complex, policy_gap and
\* low_confidence has a notice of its own, and every other type, the empty one
\* included, gets the generic flagged-for-review notice.
C30_NoticeByType ==
    /\ Cardinality(Notices \cup {GenericNotice}) = 5
    /\ Escalated =>
          /\ \E i \in 1..Len(state.response) : state.response[i] = FooterRule
          /\ state.escalation_type = "sensitive" =>
                 NoticeIn(state.response) = SensitiveNotice
          /\ state.escalation_type = "complex" =>
                 NoticeIn(state.response) = ComplexNotice
          /\ state.escalation_type = "policy_gap" =>
                 NoticeIn(state.response) = PolicyGapNotice
          /\ state.escalation_type = "low_confidence" =>
                 NoticeIn(state.response) = LowConfidenceNotice
          /\ state.escalation_type \notin {"sensitive", "complex", "policy_gap",
                                           "low_confidence"} =>
                 NoticeIn(state.response) = GenericNotice

\* a run escalated with type low_confidence carries the verification notice
C30_Witness ==
    /\ Escalated
    /\ state.escalation_type = "low_confidence"
    /\ NoticeIn(state.response) = LowConfidenceNotice

\* a run escalated with an empty type carries the generic notice
C30_WitnessGeneric ==
    /\ Escalated
    /\ state.escalation_type = ""
    /\ NoticeIn(state.response) = GenericNotice

\* ─── Retrieval over a vector store ────────────────────────────────────────

\* the largest number of chunks of the store that match a query
MaxIndexed == 7

IndexedSources   == {"leave_policy.pdf", "travel_policy.pdf"}
\* distances 0.1, 1.0 and 1.2
IndexedDistances == {1000, 10000, 12000}
IndexedHits ==
    {[page_content |-> "Employees get 12 casual leaves per year.", source |-> s,
      category |-> "leave_policy", distance |-> d] :
        s \in IndexedSources, d \in IndexedDistances}

\* the matches of the store for a query, nearest first
RECURSIVE Indexes(_)
Indexes(n) ==
    IF n = 0 THEN {<< >>}
    ELSE LET shorter == Indexes(n - 1)
         IN  shorter \cup
             UNION {{Append(q, x) : x \in {h \in IndexedHits :
                                              \A i \in 1..(n - 1) : q[i].distance <= h.distance}} :
                       q \in {r \in shorter : Len(r) = n - 1}}

\* DocumentIngestionTool.similarity_search_with_score(query, k): the k nearest
similarity_search_with_score(store, k) == Take(store, k)

RetrievalResults ==
    {FallbackResult,
     [kind |-> "object", category |-> "leave_policy",
      intent |-> "Wants the yearly casual leave entitlement", escalate |-> PyTrue,
      escalation_reason |-> "Needs human judgment", escalation_type |-> COMPLEX]}

\* the run after process_hr_query and classify_query, routed to retrieval
RetrievalInit ==
    \E result \in RetrievalResults, store \in Indexes(MaxIndexed), start_time \in StartTimes :
        /\ pc = "retrieve_documents"
        /\ args = ScoringArgs
        /\ session_id = NewSessionId(ScoringArgs.session_id, << >>)
        /\ state = classify_query(InitialState(ScoringArgs, session_id, start_time), result)
        /\ route_after_classification(state) = "retrieve_documents"
        /\ llm_result = result
        /\ results = << >>
        /\ executed = [n \in Nodes |-> IF n = "classify_query" THEN 1 ELSE 0]
        /\ llm_calls = <<"classify">>
        /\ analytics = << >>
        /\ final = NoResult
        /\ raised = ""
        /\ trace = <<"classify_query">>
        /\ index = store
        /\ abandoned = NotAbandoned
        /\ NoConcurrentCalls
        /\ NoServerActivity

\* node retrieve_documents, the service answering from the store
RetrieveFromIndex ==
    /\ pc = "retrieve_documents"
    /\ Enter("retrieve_documents")
    /\ results' = similarity_search_with_score(index, K)
    /\ state' = retrieve_documents(state, results')
    /\ pc' = AfterRetrieveDocuments
    /\ UNCHANGED <<args, session_id, llm_result, llm_calls, analytics, final, raised>>

RetrievalNext ==
    \/ RetrieveFromIndex
    \/ RetrieveDocumentsError
    \/ GenerateResponse
    \/ GenerateResponseBackendError
    \/ AssessConfidence
    \/ HandleEscalation
    \/ LogAnalytics
    \/ Return

RetrievalSpec == RetrievalInit /\ [][RetrievalNext]_vars

\* retrieve_documents has run and returned
Retrieved == executed["retrieve_documents"] = 1 /\ pc \notin {"retrieve_documents", "raised"}

\* the score of the two distances that survive: 1 - 0.1 is 0.9
ExpectedScore(distance) == IF distance = 1000 THEN 900 ELSE 0 - 1

\* C28: retrieve_documents asks for the 6 nearest matches, keeps every surviving
\* entry in retrieved_docs in retrieval order, builds the context from the first 4
\* surviving entries only, and builds sources from all surviving entries.
C28_ContextFromFirstFourSourcesFromAll ==
    Retrieved =>
        /\ results = SubSeq(index, 1, IF Len(index) < 6 THEN Len(index) ELSE 6)
        /\ Len(state.retrieved_docs) = Len(Survivors)
        /\ \A i \in 1..Len(Survivors) :
               /\ state.retrieved_docs[i].source  = Survivors[i].source
               /\ state.retrieved_docs[i].content = Survivors[i].page_content
               /\ state.retrieved_docs[i].score   = ExpectedScore(Survivors[i].distance)
        /\ Len(state.context) = IF Len(Survivors) < 4 THEN Len(Survivors) ELSE 4
        /\ \A i \in 1..Len(state.context) :
               /\ state.context[i].index   = i
               /\ state.context[i].source  = Survivors[i].source
               /\ state.context[i].content = Survivors[i].page_content
        /\ {state.sources[i] : i \in 1..Len(state.sources)} =
               {Survivors[i].source : i \in 1..Len(Survivors)}

\* the store holds seven matches, six are returned and all six survive; the
\* travel policy appears only in the fifth and sixth, so it is a source of the
\* run although no block of the context comes from it
C28_Witness ==
    /\ Retrieved
    /\ Len(index) = 7
    /\ Len(Survivors) = 6
    /\ \A i \in 1..4 : Survivors[i].source = "leave_policy.pdf"
    /\ Survivors[5].source = "travel_policy.pdf"
    /\ Survivors[6].source = "travel_policy.pdf"
    /\ state.sources = <<"leave_policy.pdf", "travel_policy.pdf">>
    /\ Len(state.retrieved_docs) = 6
    /\ \A i \in 1..Len(state.context) : state.context[i].source # "travel_policy.pdf"

\* C29: retrieve_documents drops every entry whose similarity 1 - distance is not
\* positive; when none survives, retrieved_docs and sources are empty and the
\* context is the empty string, and generate_response then uses the prompt of the
\* no-context branch.
C29_NonPositiveDroppedEmptyIsValid ==
    Retrieved =>
        /\ \A i \in 1..Len(state.retrieved_docs) : state.retrieved_docs[i].score > 0
        /\ Len(state.retrieved_docs) =
               Cardinality({i \in 1..Len(results) : results[i].distance < 10000})
        /\ NoneSurvive =>
               /\ state.retrieved_docs = << >>
               /\ state.sources = << >>
               /\ state.context = << >>
               /\ executed["generate_response"] = 1 => llm_calls[2] = "generate_degraded"
        /\ (~NoneSurvive /\ executed["generate_response"] = 1) =>
               llm_calls[2] = "generate_grounded"

\* the service returned entries of similarity 0.0 and -0.2 only; the stage
\* returned with nothing retrieved and generation took the no-context branch
C29_Witness ==
    /\ Retrieved
    /\ Len(results) = 2
    /\ results[1].distance = 10000
    /\ results[2].distance = 12000
    /\ state.retrieved_docs = << >>
    /\ state.context = << >>
    /\ pc = "assess_confidence"
    /\ llm_calls = <<"classify", "generate_degraded">>

\* ─── Abandoned requests ───────────────────────────────────────────────────

\* the caller gives up on the request (a client disconnect) while the graph is
\* running; hr_graph.invoke is a plain call inside the coroutine and no node
\* looks at the caller, so nothing else changes
Abandon ==
    /\ pc \in Nodes
    /\ abandoned = NotAbandoned
    /\ abandoned' = Len(trace)
    /\ UNCHANGED <<pc, args, session_id, state, llm_result, results, executed, llm_calls,
                   analytics, final, raised, trace, index, runs, states, ingestion_tool,
                   constructed, request, vector_store, ingestion>>

AbandonNext == ScoringNext \/ Abandon

\* the runs after retrieval, with a caller that may abandon the request
AbandonSpec == ScoringInit /\ [][AbandonNext]_vars

\* C24: once the caller has abandoned the request, at most the stage in flight
\* at that moment is still run: no stage beyond it is entered.
C24_StopsAtNextStageBoundary ==
    abandoned # NotAbandoned => Len(trace) <= abandoned + 1

\* ─── Concurrent calls ─────────────────────────────────────────────────────

\* two calls of process_hr_query under way at the same time
Callers == {1, 2}

\* variant: one dict at module level, used by every call
StateSlot_Module(c) == 1

\* initial_state is a dict built inside the call: one per call
StateSlot(c) == c

\* str(uuid.uuid4()) of each call
FreshTokenOf(c) ==
    IF c = 1 THEN CHOOSE t \in FreshTokens : TRUE
    ELSE <<"9","d","4","e","1","b","7","a","-","0","c","5","f","-","4","e","2","8","-",
           "b","6","3","a","-","8","f","1","d","2","e","7","c","0","a","4","5">>

\* the second caller sends the session_id of the first, or none
ConcurrentArgs ==
    {a \in [Callers -> {ScoringArgs, [ScoringArgs EXCEPT !.session_id = NoSessionId]}] :
        a[1] = ScoringArgs}

ConcurrentResults ==
    {FallbackResult,
     [kind |-> "object", category |-> "leave_policy",
      intent |-> "Wants the yearly casual leave entitlement", escalate |-> PyTrue,
      escalation_reason |-> "Needs human judgment", escalation_type |-> COMPLEX],
     [kind |-> "object", category |-> "salary",
      intent |-> "Wants the yearly casual leave entitlement", escalate |-> PyTrue,
      escalation_reason |-> "Needs human judgment", escalation_type |-> SENSITIVE]}

ConcurrentResultLists ==
    {<< >>} \cup
    {<<[page_content |-> "Employees get 12 casual leaves per year.",
        source |-> "leave_policy.pdf", category |-> "leave_policy", distance |-> d]>> :
        d \in {1000, 7004}}

\* the time a run takes, in milliseconds
ConcurrentDelays == {12, 30}

\* what the backends and the clock give to one call: the classifier's parsed
\* reply, the retrieval results, the generated text, time.time() at the start
\* and the time the run takes
BackendResponses ==
    [result : ConcurrentResults, res : ConcurrentResultLists, content : GeneratedTexts,
     start_time : StartTimes, delay : ConcurrentDelays]

ConcurrentInit ==
    /\ pc = "idle"
    /\ args = NoArgs
    /\ session_id = NoSessionId
    /\ state = NoState
    /\ llm_result = NotParsed
    /\ results = << >>
    /\ executed = [n \in Nodes |-> 0]
    /\ llm_calls = << >>
    /\ analytics = << >>
    /\ final = NoResult
    /\ raised = ""
    /\ trace = << >>
    /\ index = << >>
    /\ abandoned = NotAbandoned
    /\ \E a \in ConcurrentArgs, b \in [Callers -> BackendResponses] :
          runs = [c \in Callers |->
                     [pc |-> "idle", args |-> a[c], backend |-> b[c],
                      session_id |-> NoSessionId, trace |-> << >>, final |-> NoResult]]
    /\ states = [c \in Callers |-> NoState]
    /\ ingestion_tool = NoTool
    /\ constructed = 0
    /\ NoServerActivity

\* the variables of the single run
runVars == <<pc, args, session_id, state, llm_result, results, executed, llm_calls,
             final, raised, trace, index, abandoned, request, vector_store, ingestion>>

\* caller c completes the node it is in and goes to the next position with a
\* new state dict
Step(c, from, to, st) ==
    /\ runs[c].pc = from
    /\ runs' = [runs EXCEPT ![c].pc = to, ![c].trace = Append(@, IF from = "search" THEN "retrieve_documents" ELSE from)]
    /\ states' = [states EXCEPT ![StateSlot(c)] = st]
    /\ UNCHANGED runVars

\* process_hr_query up to hr_graph.invoke(initial_state)
CallerEnters(c) ==
    /\ runs[c].pc = "idle"
    /\ LET sid == NewSessionId(runs[c].args.session_id, FreshTokenOf(c))
       IN  /\ runs' = [runs EXCEPT ![c].pc = EntryPoint, ![c].session_id = sid]
           /\ states' = [states EXCEPT ![StateSlot(c)] =
                             InitialState(runs[c].args, sid, runs[c].backend.start_time)]
    /\ UNCHANGED runVars
    /\ UNCHANGED <<analytics, ingestion_tool, constructed>>

CallerClassifies(c) ==
    /\ LET st == classify_query(states[StateSlot(c)], runs[c].backend.result)
       IN  Step(c, "classify_query", route_after_classification(st), st)
    /\ UNCHANGED <<analytics, ingestion_tool, constructed>>

\* get_ingestion_tool: `if _ingestion_tool is None`
CallerLooksForTool(c) ==
    /\ runs[c].pc = "retrieve_documents"
    /\ runs' = [runs EXCEPT ![c].pc = IF ingestion_tool = NoTool
                                      THEN "construct_tool" ELSE "search"]
    /\ UNCHANGED runVars
    /\ UNCHANGED <<states, analytics, ingestion_tool, constructed>>

\* get_ingestion_tool: `_ingestion_tool = DocumentIngestionTool()`
CallerConstructsTool(c) ==
    /\ runs[c].pc = "construct_tool"
    /\ constructed' = constructed + 1
    /\ ingestion_tool' = constructed'
    /\ runs' = [runs EXCEPT ![c].pc = "search"]
    /\ UNCHANGED runVars
    /\ UNCHANGED <<states, analytics>>

\* the rest of retrieve_documents; every tool object opens the same store
CallerRetrieves(c) ==
    /\ ingestion_tool # NoTool
    /\ Step(c, "search", AfterRetrieveDocuments,
            retrieve_documents(states[StateSlot(c)], runs[c].backend.res))
    /\ UNCHANGED <<analytics, ingestion_tool, constructed>>

CallerGenerates(c) ==
    /\ Step(c, "generate_response", AfterGenerateResponse,
            generate_response(states[StateSlot(c)], runs[c].backend.content))
    /\ UNCHANGED <<analytics, ingestion_tool, constructed>>

CallerAssesses(c) ==
    /\ LET st == assess_confidence(states[StateSlot(c)])
       IN  Step(c, "assess_confidence", route_after_confidence(st), st)
    /\ UNCHANGED <<analytics, ingestion_tool, constructed>>

CallerEscalates(c) ==
    /\ Step(c, "handle_escalation", AfterHandleEscalation,
            handle_escalation(states[StateSlot(c)]))
    /\ UNCHANGED <<analytics, ingestion_tool, constructed>>

CallerLogs(c) ==
    /\ LET end_time == states[StateSlot(c)].start_time + runs[c].backend.delay
           st == log_analytics(states[StateSlot(c)], end_time)
       IN  /\ Step(c, "log_analytics", AfterLogAnalytics, st)
           /\ analytics' = Append(analytics, AnalyticsData(st, end_time))
    /\ UNCHANGED <<ingestion_tool, constructed>>

\* process_hr_query after hr_graph.invoke returned
CallerReturns(c) ==
    /\ runs[c].pc = "END"
    /\ runs' = [runs EXCEPT ![c].pc = "returned",
                            ![c].final = Result(runs[c].session_id, runs[c].args.query,
                                                states[StateSlot(c)])]
    /\ UNCHANGED runVars
    /\ UNCHANGED <<states, analytics, ingestion_tool, constructed>>

ConcurrentNext ==
    \E c \in Callers :
        \/ CallerEnters(c)
        \/ CallerClassifies(c)
        \/ CallerLooksForTool(c)
        \/ CallerConstructsTool(c)
        \/ CallerRetrieves(c)
        \/ CallerGenerates(c)
        \/ CallerAssesses(c)
        \/ CallerEscalates(c)
        \/ CallerLogs(c)
        \/ CallerReturns(c)

ConcurrentSpec == ConcurrentInit /\ [][ConcurrentNext]_vars

\* the state at the end of the graph when the call of caller c is the only one
AloneFinalState(c) ==
    LET b   == runs[c].backend
        sid == IF runs[c].args.session_id = NoSessionId
               THEN FreshTokenOf(c) ELSE runs[c].args.session_id
        s1  == classify_query(InitialState(runs[c].args, sid, b.start_time), b.result)
        s4  == assess_confidence(
                   generate_response(retrieve_documents(s1, b.res), b.content))
        s5  == IF route_after_classification(s1) = "handle_escalation"
               THEN handle_escalation(s1)
               ELSE IF route_after_confidence(s4) = "handle_escalation"
                    THEN handle_escalation(s4)
                    ELSE s4
    IN  log_analytics(s5, b.start_time + b.delay)

\* the result of caller c when its call is the only one
AloneResult(c) ==
    Result(IF runs[c].args.session_id = NoSessionId
           THEN FreshTokenOf(c) ELSE runs[c].args.session_id,
           runs[c].args.query, AloneFinalState(c))

\* C23: the two calls work on different state records, and in every
\* interleaving the result each call returns is the result it returns when it is
\* the only call, given the same backend responses.
C23_ConcurrentRunsDoNotInterfere ==
    /\ \A c, d \in Callers : c # d => StateSlot(c) # StateSlot(d)
    /\ \A c \in Callers : runs[c].pc = "returned" => runs[c].final = AloneResult(c)

\* both calls have returned, with the same session_id and different results:
\* the first was answered from evidence while the second was being escalated
C23_Witness ==
    /\ \A c \in Callers : runs[c].pc = "returned"
    /\ runs[1].session_id = runs[2].session_id
    /\ runs[1].final.escalated = PyFalse
    /\ runs[2].final.escalated = PyTrue
    /\ runs[2].final.sources = << >>
    /\ runs[1].final.sources # << >>
    /\ constructed = 2

\* ---------------------------------------------------------------------------
\* Escalation without an earlier response
\* ---------------------------------------------------------------------------

\* the step taken is node handle_escalation, run on an empty response
EscalatesEmptyResponse ==
    /\ pc = "handle_escalation"
    /\ pc' # pc
    /\ state.response = << >>

\* C31: when handle_escalation runs on an empty response, the response it
\* leaves is the generic acknowledgment followed by the footer: it is neither
\* empty nor the footer alone.
C31_AcknowledgmentBeforeFooter ==
    [][EscalatesEmptyResponse =>
          /\ state'.response # << >>
          /\ state'.response[1] = "Thank you for your query. "
          /\ Len(state'.response) > 1
          /\ state'.response[2] = FooterRule
          /\ FooterCount(state'.response) = 1
          /\ state'.response[Len(state'.response)] = FooterRefClose]_vars

\* a sensitive run, which never generated a response, was escalated
C31_Witness ==
    /\ Escalated
    /\ trace[2] = "handle_escalation"
    /\ executed["generate_response"] = 0
    /\ state.response[1] = Acknowledgment
    /\ state.response[2] = FooterRule

\* ---------------------------------------------------------------------------
\* The escalated flag and the footer
\* ---------------------------------------------------------------------------

\* C32: in every completed run whose escalated field is a boolean, escalated is
\* true if and only if handle_escalation ran; then the response has the footer
\* exactly once, and when escalated is false the response has no footer.
C32_EscalatedIffHandled ==
    (pc = "returned" /\ final.escalated \in {PyTrue, PyFalse}) =>
        /\ final.escalated = PyTrue <=> executed["handle_escalation"] = 1
        /\ final.escalated = PyTrue  => FooterCount(final.response) = 1
        /\ final.escalated = PyFalse => FooterCount(final.response) = 0

\* a run escalated by assess_confidence for want of evidence has returned its
\* generated answer with one footer
C32_Witness ==
    /\ pc = "returned"
    /\ trace = EscalatedPath
    /\ llm_result.escalate = PyFalse
    /\ final.escalated = PyTrue
    /\ Len(final.response) > 1
    /\ FooterCount(final.response) = 1

\* ---------------------------------------------------------------------------
\* The escalation type of a run answered from evidence
\* ---------------------------------------------------------------------------

\* the step taken is node assess_confidence, run with evidence
AssessesWithEvidence ==
    /\ pc = "assess_confidence"
    /\ pc' # pc
    /\ state.retrieved_docs # << >>

\* C33: with evidence assess_confidence changes no field other than
\* confidence_score and should_escalate; escalation_type and escalation_reason
\* stay what classify_query stored from the classifier.
C33_EvidenceKeepsTypeAndReason ==
    [][AssessesWithEvidence =>
          /\ state' = [state EXCEPT !.confidence_score = state'.confidence_score,
                                    !.should_escalate  = state'.should_escalate]
          /\ state'.escalation_type   = OrEmpty(llm_result.escalation_type)
          /\ state'.escalation_reason = OrEmpty(llm_result.escalation_reason)]_vars

\* a completed run returned escalated = false together with the type complex
C33_Witness ==
    /\ pc = "returned"
    /\ llm_result.escalate = PyTrue
    /\ llm_result.escalation_type = COMPLEX
    /\ state.retrieved_docs # << >>
    /\ final.escalated = PyFalse
    /\ final.escalation_type = COMPLEX

\* ---------------------------------------------------------------------------
\* The analytics record and the result
\* ---------------------------------------------------------------------------

\* C34: a run that reaches the end of the graph has entered log_analytics last
\* and has emitted one record; once the record is built no stage follows, and
\* the record has the session_id, category, confidence, escalated flag,
\* escalation_type and sources of the result process_hr_query returns.
C34_RecordAgreesWithResult ==
    /\ pc \in {"END", "returned"} =>
           /\ trace[Len(trace)] = "log_analytics"
           /\ Len(analytics) = 1
    /\ executed["log_analytics"] = 1 =>
           /\ pc \in {"END", "returned"}
           /\ trace[Len(trace)] = "log_analytics"
           /\ analytics[1].session_id       = state.session_id
           /\ analytics[1].query_category   = state.query_category
           /\ analytics[1].confidence_score = state.confidence_score
           /\ analytics[1].escalated        = state.should_escalate
           /\ analytics[1].escalation_type  = state.escalation_type
           /\ analytics[1].sources_used     = state.sources
    /\ pc = "returned" =>
           /\ analytics[1].session_id       = final.session_id
           /\ analytics[1].query_category   = final.category
           /\ analytics[1].confidence_score = final.confidence
           /\ analytics[1].escalated        = final.escalated
           /\ analytics[1].escalation_type  = final.escalation_type
           /\ analytics[1].sources_used     = final.sources
           /\ analytics[1].response_time_ms = final.response_time_ms

\* a run escalated for want of evidence has returned after its record was built
C34_Witness ==
    /\ pc = "returned"
    /\ trace = EscalatedPath
    /\ Len(analytics) = 1
    /\ final.confidence = NoDocsConfidence
    /\ analytics[1].confidence_score = NoDocsConfidence
    /\ analytics[1].escalated = PyTrue
    /\ analytics[1].escalation_type = POLICY_GAP

\* a run answered from evidence has returned the sources its record carries
C34_WitnessAnswered ==
    /\ pc = "returned"
    /\ trace = AnsweredPath
    /\ final.sources # << >>
    /\ analytics[1].sources_used = final.sources

\* ---------------------------------------------------------------------------
\* Determinism
\* ---------------------------------------------------------------------------

\* the two calls have the same query, identity fields and session_id and get
\* the same classifier output, retrieval results and generated text
SameInputs ==
    /\ runs[1].args = runs[2].args
    /\ runs[1].backend.result  = runs[2].backend.result
    /\ runs[1].backend.res     = runs[2].backend.res
    /\ runs[1].backend.content = runs[2].backend.content

BothReturned == \A c \in Callers : runs[c].pc = "returned"

\* the result without its elapsed time
Timeless(result) == [result EXCEPT !.response_time_ms = 0]

C36_AtMostOneToolConstructed == constructed <= 1

\* ─── The HTTP server ──────────────────────────────────────────────────────

\* str.lower()
Lower(text) ==
    [i \in 1..Len(text) |->
        IF \E k \in 1..Len(UpperCase) : UpperCase[k] = text[i]
        THEN LowerCase[CHOOSE k \in 1..Len(UpperCase) : UpperCase[k] = text[i]]
        ELSE text[i]]

\* values of the X-Employee-Role header, one character per element; the header
\* may be absent
NoHeader == <<PyNone>>
HeaderValues ==
    {NoHeader,
     << >>,
     <<"h","r","_","a","d","m","i","n">>,
     <<"H","R","_","A","D","M","I","N">>,
     <<"h","r","_","m","a","n","a","g","e","r">>,
     <<"H","r","_","M","a","n","a","g","e","r">>,
     <<"e","m","p","l","o","y","e","e">>,
     <<"a","d","m","i","n">>,
     <<"h","r","_","a","d","m","i","n","s">>}

\* hr_roles = {"hr_admin", "hr_manager"}
hr_roles ==
    {<<"h","r","_","a","d","m","i","n">>, <<"h","r","_","m","a","n","a","g","e","r">>}

\* variant: any role that is sent is accepted
check_hr_role_AnyRole(x_employee_role) ==
    ~(x_employee_role = NoHeader \/ x_employee_role = << >>)

\* check_hr_role: TRUE when it returns the role, FALSE when it raises
\* HTTPException(status_code=403)
check_hr_role(x_employee_role) ==
    ~(\/ x_employee_role = NoHeader
      \/ x_employee_role = << >>
      \/ Lower(x_employee_role) \notin hr_roles)

\* the routes of the app: whether the handler declares Depends(check_hr_role),
\* what its body does, and the status codes its body can answer with
Routes ==
    [e \in {"GET /", "GET /health", "POST /query", "POST /feedback",
            "POST /documents/ingest", "POST /documents/ingest-directory",
            "GET /documents/stats", "GET /analytics/overview",
            "GET /analytics/categories", "GET /analytics/trends",
            "GET /escalations/pending", "PUT /escalations/{escalation_id}/resolve"} |->
        CASE e = "GET /" ->
                 [depends |-> FALSE, body |-> <<"root">>, statuses |-> {200}]
          [] e = "GET /health" ->
                 [depends |-> FALSE, body |-> <<"get_collection_stats">>, statuses |-> {200}]
          [] e = "POST /query" ->
                 [depends |-> FALSE, body |-> <<"process_hr_query">>, statuses |-> {200, 500}]
          [] e = "POST /feedback" ->
                 [depends |-> FALSE, body |-> <<"submit_feedback">>, statuses |-> {200}]
          [] e = "POST /documents/ingest" ->
                 [depends |-> TRUE, body |-> <<"save_file", "ingest_document">>,
                  statuses |-> {200, 500}]
          [] e = "POST /documents/ingest-directory" ->
                 [depends |-> TRUE, body |-> <<"ingest_directory">>, statuses |-> {200}]
          [] e = "GET /documents/stats" ->
                 [depends |-> FALSE, body |-> <<"get_collection_stats">>, statuses |-> {200}]
          [] e = "GET /analytics/overview" ->
                 [depends |-> TRUE, body |-> <<"read_analytics">>, statuses |-> {200}]
          [] e = "GET /analytics/categories" ->
                 [depends |-> TRUE, body |-> <<"read_categories">>, statuses |-> {200}]
          [] e = "GET /analytics/trends" ->
                 [depends |-> TRUE, body |-> <<"read_trends">>, statuses |-> {200}]
          [] e = "GET /escalations/pending" ->
                 [depends |-> TRUE, body |-> <<"read_pending_escalations">>,
                  statuses |-> {200}]
          [] OTHER ->
                 [depends |-> TRUE, body |-> <<"resolve_escalation">>, statuses |-> {200}]]

\* everything but the request being handled
notRequest == <<pc, args, session_id, state, llm_result, results, executed, llm_calls,
                analytics, final, raised, trace, index, abandoned, runs, states,
                ingestion_tool, constructed, vector_store, ingestion>>

\* a request arrives and is routed to its handler
Receive ==
    /\ request.phase = "none"
    /\ \E e \in DOMAIN Routes, h \in HeaderValues :
         request' = [phase |-> "dependencies", endpoint |-> e, header |-> h,
                     status |-> 0, effects |-> << >>]
    /\ UNCHANGED notRequest

\* the dependencies of the handler are solved before its body is called; an
\* HTTPException raised by one is the answer
SolveDependencies ==
    /\ request.phase = "dependencies"
    /\ request' =
         IF Routes[request.endpoint].depends /\ ~check_hr_role(request.header)
         THEN [request EXCEPT !.phase = "answered", !.status = 403]
         ELSE [request EXCEPT !.phase = "body"]
    /\ UNCHANGED notRequest

\* the body of the handler runs and answers
RunBody ==
    /\ request.phase = "body"
    /\ \E code \in Routes[request.endpoint].statuses :
         request' = [request EXCEPT !.phase = "answered", !.status = code,
                                    !.effects = Routes[request.endpoint].body]
    /\ UNCHANGED notRequest

\* POST /documents/ingest: the upload has an extension that is not allowed
RejectUpload ==
    /\ request.phase = "body"
    /\ request.endpoint = "POST /documents/ingest"
    /\ request' = [request EXCEPT !.phase = "answered", !.status = 400]
    /\ UNCHANGED notRequest

ServerNext == Receive \/ SolveDependencies \/ RunBody \/ RejectUpload

ServerSpec == Init /\ [][ServerNext]_vars

\* the endpoints reserved to the HR team
HROnlyEndpoints ==
    {"POST /documents/ingest", "POST /documents/ingest-directory",
     "GET /analytics/overview", "GET /analytics/categories", "GET /analytics/trends",
     "GET /escalations/pending", "PUT /escalations/{escalation_id}/resolve"}

\* the header values of the model that spell hr_admin or hr_manager in some case
HrHeaders ==
    {<<"h","r","_","a","d","m","i","n">>, <<"H","R","_","A","D","M","I","N">>,
     <<"h","r","_","m","a","n","a","g","e","r">>,
     <<"H","r","_","M","a","n","a","g","e","r">>}

C37_WitnessAllowed ==
    /\ request.phase = "answered"
    /\ request.endpoint = "PUT /escalations/{escalation_id}/resolve"
    /\ request.header = <<"H","r","_","M","a","n","a","g","e","r">>
    /\ request.status = 200
    /\ request.effects = <<"resolve_escalation">>

\* ─── Document ingestion ───────────────────────────────────────────────────

\* how many times ingest_document is called
MaxIngests == 2

\* file suffixes, one character per element
Suffixes ==
    {<<".","p","d","f">>, <<".","P","D","F">>, <<".","d","o","c","x">>, <<".","d","o","c">>,
     <<".","t","x","t">>, <<".","m","d">>, <<".","c","s","v">>}

\* the text of a file, in pieces: a paragraph, a blank or a line break; every
\* text of the model is shorter than chunk_size
FileTexts ==
    {<< >>,
     <<" ", "[newline]">>,
     <<"Employees get 12 casual leaves per year.">>,
     <<"[newline]", "Employees get 12 casual leaves per year.", "[newline]", "[newline]",
       "Claims need receipts.", " ">>}

\* a file on disk; one that is not readable cannot be opened or parsed
Files == [suffix : Suffixes, readable : BOOLEAN, text : FileTexts]

IsWhitespace(piece) == piece \in {" ", "[newline]"}

\* str.strip()
RECURSIVE Strip(_)
Strip(text) ==
    IF text = << >> THEN << >>
    ELSE IF IsWhitespace(Head(text)) THEN Strip(Tail(text))
    ELSE IF IsWhitespace(text[Len(text)]) THEN Strip(SubSeq(text, 1, Len(text) - 1))
    ELSE text

\* re.sub(r'\s+', ' ', text): every run of whitespace becomes one blank
RECURSIVE CollapseWhitespace(_)
CollapseWhitespace(text) ==
    IF text = << >> THEN << >>
    ELSE IF IsWhitespace(Head(text))
         THEN IF Len(text) > 1 /\ IsWhitespace(text[2])
              THEN CollapseWhitespace(Tail(text))
              ELSE <<" ">> \o CollapseWhitespace(Tail(text))
         ELSE <<Head(text)>> \o CollapseWhitespace(Tail(text))

\* _extract_text: the text; a failure of the PDF or DOCX parser is caught and
\* gives "", the OSError of open() for a .txt or .md file is not caught
ExtractText(file) ==
    LET ext == Lower(file.suffix)
    IN  CASE ext = <<".","p","d","f">> ->
                 [raised |-> FALSE, text |-> IF file.readable THEN file.text ELSE << >>]
          [] ext \in {<<".","d","o","c","x">>, <<".","d","o","c">>} ->
                 [raised |-> FALSE, text |-> IF file.readable THEN file.text ELSE << >>]
          [] ext \in {<<".","t","x","t">>, <<".","m","d">>} ->
                 IF file.readable THEN [raised |-> FALSE, text |-> file.text]
                 ELSE [raised |-> TRUE, text |-> << >>]
          [] OTHER -> [raised |-> FALSE, text |-> << >>]

\* text_splitter.split_text on a text shorter than chunk_size: one chunk
split_text(text) == IF Strip(text) = << >> THEN << >> ELSE <<Strip(text)>>

\* the Documents built from the chunks of a file
DocumentsOf(file, chunks) ==
    [i \in 1..Len(chunks) |->
        [page_content |-> chunks[i], source |-> <<"handbook">> \o file.suffix,
         chunk_index |-> i - 1,
         total_chunks |-> Len(chunks)]]

\* everything but the collection and the call of ingest_document
notIngestion == <<pc, args, session_id, state, llm_result, results, executed, llm_calls,
                  analytics, final, raised, trace, index, abandoned, runs, states,
                  ingestion_tool, constructed, request>>

\* ingest_document(filepath) is called
CallIngestDocument ==
    /\ ingestion.phase \in {"none", "returned", "raised"}
    /\ ingestion.calls < MaxIngests
    /\ \E file \in Files :
         ingestion' = [phase |-> "extract", calls |-> ingestion.calls + 1, file |-> file,
                       before |-> vector_store, documents |-> << >>,
                       result |-> [status |-> ""]]
    /\ UNCHANGED vector_store
    /\ UNCHANGED notIngestion

\* ingest_document up to the Documents it builds
ExtractAndChunk ==
    /\ ingestion.phase = "extract"
    /\ LET extracted == ExtractText(ingestion.file)
       IN  IF extracted.raised
           THEN ingestion' = [ingestion EXCEPT !.phase = "raised"]
           ELSE IF Strip(extracted.text) = << >>
                THEN ingestion' = [ingestion EXCEPT
                         !.phase = "returned",
                         !.result = [status |-> "error", message |-> "No text extracted"]]
                ELSE ingestion' = [ingestion EXCEPT
                         !.phase = "add",
                         !.documents =
                             DocumentsOf(ingestion.file,
                                         split_text(CollapseWhitespace(extracted.text)))]
    /\ UNCHANGED vector_store
    /\ UNCHANGED notIngestion

\* self.vector_store.add_documents(documents) and the success dict
AddDocuments ==
    /\ ingestion.phase = "add"
    /\ vector_store' = vector_store \o ingestion.documents
    /\ ingestion' = [ingestion EXCEPT
           !.phase = "returned",
           !.result = [status |-> "success", chunks |-> Len(ingestion.documents)]]
    /\ UNCHANGED notIngestion

\* add_documents raises while embedding, before anything is written
AddDocumentsError ==
    /\ ingestion.phase = "add"
    /\ ingestion' = [ingestion EXCEPT !.phase = "raised"]
    /\ UNCHANGED vector_store
    /\ UNCHANGED notIngestion

IngestNext == CallIngestDocument \/ ExtractAndChunk \/ AddDocuments \/ AddDocumentsError

IngestSpec == Init /\ [][IngestNext]_vars

\* the file has an unsupported type, cannot be read or parsed, or is blank
NoTextCanBeExtracted(file) ==
    \/ file.suffix \in {<<".","c","s","v">>}
    \/ ~file.readable
    \/ \A i \in 1..Len(file.text) : file.text[i] \in {" ", "[newline]"}

IngestEnded == ingestion.phase \in {"returned", "raised"}

\* C38: a call of ingest_document on a file from which no text can be extracted
\* ends by returning status error with the collection as it was, and the
\* collection grows only in calls that return status success.
C38_NoTextIsAnErrorResult ==
    IngestEnded =>
        /\ NoTextCanBeExtracted(ingestion.file) =>
               /\ ingestion.phase = "returned"
               /\ ingestion.result.status = "error"
               /\ vector_store = ingestion.before
        /\ vector_store # ingestion.before =>
               /\ ingestion.phase = "returned"
               /\ ingestion.result.status = "success"

\* the part that does hold: a call that does not return success leaves the
\* collection as it was, and one that returns success has added its chunks
C38_OnlySuccessAdds ==
    IngestEnded =>
        IF ingestion.phase = "returned" /\ ingestion.result.status = "success"
        THEN /\ ~NoTextCanBeExtracted(ingestion.file)
             /\ Len(vector_store) = Len(ingestion.before) + ingestion.result.chunks
             /\ ingestion.result.chunks > 0
        ELSE vector_store = ingestion.before

====
